---- MODULE Spec2Model ----
(***************************************************************************)
(* Tutorial hand component (assets/Tutorial.ts): the inactivity monitor    *)
(* and the hint sequencer.                                                 *)
(*                                                                         *)
(* The component runs on one JavaScript thread.  A step of the model is    *)
(* one run-to-completion piece of code: a public method call, an engine    *)
(* callback (the 1 s schedule, the 0.5 s scheduleOnce, the end of a tween  *)
(* phase), or the draining of the promise-job queue.  Promise reactions    *)
(* (.then/.catch handlers and the continuation of an await) are queued in  *)
(* `micro` and all run, in FIFO order, when the running code returns to    *)
(* the engine; the caller that made a call may make further calls before   *)
(* that happens.                                                           *)
(*                                                                         *)
(* Scales are fixed-point numbers in tenths (10 is 1.0, 12 is 1.2).        *)
(***************************************************************************)
EXTENDS Integers, Sequences, FiniteSets, TLC

\* ------------------------------------------------------------------ bounds
MaxLen == 4          \* longest target list handed to a show method
MaxLive == 2         \* closures of playHintAnimation that can be pending
MaxDelay == 2        \* largest value handed to setInactivityDelay
MaxComponents == 3   \* Tutorial components created in the scene

\* --------------------------------------------------------------- constants
START_GAME == 0
INACTIVITY == 1
MISSION_FAIL == 2
CUSTOM == 3
HintType == {START_GAME, INACTIVITY, MISSION_FAIL, CUSTOM}

HINT_START == "hint-start"
HINT_END == "hint-end"
PLAYER_INACTIVE == "player-inactive"

DefaultInactivityDelay == 15
SliceEnd == 3
DefaultMoveSpeed == 5            \* 0.5 s, in tenths
PressAnimationDuration == 1      \* 0.1 s, in tenths

NoPayload == -1
Zero == <<0, 0, 0>>

\* A TutorialTarget: the objects the game hands in.  Target t sits at
\* world position (4 + t, 0, 4 + t), so target 1 is at (5, 0, 5).  Its isValid flag belongs to the game and may
\* change between any two steps, so every step that reads the flags takes
\* their current values as an input v (a function Targets -> BOOLEAN).
Targets == 1 .. MaxLen
WorldPosition(t) == <<4 + t, 0, 4 + t>>
TargetLists == { [i \in 1 .. n |-> i] : n \in 0 .. MaxLen }
Validities == [Targets -> BOOLEAN]
\* A show method reads the flag of targets[0] only.
FirstValidities == { [t \in Targets |-> b] : b \in BOOLEAN }

\* An optional `targets?` argument: either a list or undefined.
Undefined == [given |-> FALSE, list |-> <<>>]
Given(l) == [given |-> TRUE, list |-> l]
TargetArgs == {Undefined} \cup { Given(l) : l \in TargetLists }

Delays == 0 .. MaxDelay

\* Values handed to the configuration setters.
Scales == { <<20, 10, 10>> }
UniformScales == { 10 }
Offsets == { <<1, 0, 2>> }
OffsetsXY == { <<0, 1>> }
PressScales == { 15 }
Speeds == { 10 }

\* The Tutorial components of the scene; Self is the one whose fields the
\* variables hold.
Components == 1 .. MaxComponents
Self == 1

VARIABLES
    handPrefab,          \* the prefab property is assigned
    hand,                \* the hand node: exists, active, pos, scale
    handScale,
    handOffset,
    pressAnimationScale,
    moveSpeed,           \* in tenths of a second
    inactivityTime,
    inactivityDelay,
    isActive,
    isReady,
    scheduled,           \* the 1 s repeating callback is registered
    customTargets,       \* node['_customTargets']
    pipes,               \* the pending closures of playHintAnimation
    micro,               \* the promise-job queue
    emitted,             \* events emitted by the last step, in order
    ended,               \* the pipelines that ended in the last step
    openHint,            \* a hint-start has been emitted and not yet closed
    op,                  \* name of the last step taken
    broken,              \* targets whose worldPosition is undefined
    instance,            \* Tutorial.instance: a component, or 0 for null
    lifecycle            \* of each Tutorial component in the scene

vars == <<handPrefab, hand, handScale, handOffset, pressAnimationScale,
          moveSpeed, inactivityTime, inactivityDelay, isActive, isReady,
          scheduled, customTargets, pipes, micro, emitted, ended, openHint,
          op, broken, instance, lifecycle>>

config == <<handPrefab, handScale, handOffset, pressAnimationScale,
            moveSpeed>>

\* What the game and the scene hold besides this component's fields.
scene == <<broken, instance, lifecycle>>

Event(name, payload) == [name |-> name, payload |-> payload]

NoHand == [exists |-> FALSE, active |-> FALSE, pos |-> Zero, scale |-> Zero]

\* One pipeline: the closure state of one playHintAnimation call.
\* moved, pressed and skipped record, in order, the indices of its target
\* list that were moved to, press-animated and skipped; stopped records that stop()
\* was called while it was pending; firstInvalid that targets[0] was
\* invalid when it was started; requested the length of the list the
\* request handed in; failed that a rejection or an exception was raised in
\* it.  duration is the duration of the tween phase in flight.
NoPipe ==
    [live |-> FALSE, hintType |-> 0, targets |-> <<>>, currentIndex |-> 0,
     phase |-> "none", dest |-> Zero, pressedScale |-> Zero,
     originalScale |-> Zero, duration |-> 0, stopped |-> FALSE,
     firstInvalid |-> FALSE, requested |-> 0, failed |-> FALSE,
     moved |-> <<>>, pressed |-> <<>>, skipped |-> <<>>]

Slots == 1 .. MaxLive
LiveSlots(ps) == { k \in Slots : ps[k].live }
FreeSlots(ps) == Slots \ LiveSlots(ps)
FirstFree(ps) == CHOOSE k \in FreeSlots(ps) : \A j \in FreeSlots(ps) : k <= j

Job(kind, k) == [kind |-> kind, sid |-> k]

\* A sum that leaves z as it is in a.
VecAddXY(a, b) == <<a[1] + b[1], a[2] + b[2], a[3]>>

VecAdd(a, b) == <<a[1] + b[1], a[2] + b[2], a[3] + b[3]>>

Min(a, b) == IF a < b THEN a ELSE b

\* The whole list, not truncated.
SliceAll(targets) == targets

\* targets.slice(0, 3)
Slice(targets) == SubSeq(targets, 1, Min(Len(targets), SliceEnd))

\* The part of the state that the sequencer's code reads and writes.
Machine ==
    [pipes |-> pipes, micro |-> micro, hand |-> hand, isActive |-> isActive,
     emitted |-> <<>>, ended |-> <<>>]

Emit(m, name, payload) ==
    [m EXCEPT !.emitted = Append(@, Event(name, payload))]

Enqueue(m, kind, k) == [m EXCEPT !.micro = Append(@, Job(kind, k))]

\* ---------------------------------------------------------- hint sequencer

\* resolve() of the promise of animateHandThroughTargets: the await in
\* playHintAnimation continues in a promise job.
ResolveAnimation(m, k) ==
    Enqueue([m EXCEPT !.pipes[k].phase = "job"], "resume", k)

\* animateNextTarget that animates an invalid target like a valid one.
AnimateNextTargetNoSkip(m, k, v) ==
    LET p == m.pipes[k] IN
    IF p.currentIndex >= Len(p.targets)
    THEN ResolveAnimation(m, k)
    ELSE [m EXCEPT !.pipes[k].phase = "move",
                   !.pipes[k].dest =
                       VecAdd(WorldPosition(p.targets[p.currentIndex + 1]),
                              handOffset),
                   !.pipes[k].duration = moveSpeed,
                   !.pipes[k].moved = Append(@, p.currentIndex)]

\* An exception raised in a scheduler callback or in the .then handler of
\* the press promise: nothing catches it and the promise of
\* animateHandThroughTargets is never settled.
Hang(m, k) ==
    [m EXCEPT !.pipes[k].phase = "hung", !.pipes[k].failed = TRUE]

\* animateNextTarget: skip invalid targets, start the move tween toward the
\* first valid one, resolve past the end of the list.  Reading worldPos.x
\* of a target without a worldPosition throws.
RECURSIVE AnimateNextTarget(_, _, _)
AnimateNextTarget(m, k, v) ==
    LET p == m.pipes[k] IN
    IF p.currentIndex >= Len(p.targets)
    THEN ResolveAnimation(m, k)
    ELSE LET target == p.targets[p.currentIndex + 1] IN
         IF ~v[target]
         THEN AnimateNextTarget(
                  [m EXCEPT !.pipes[k].currentIndex = @ + 1,
                            !.pipes[k].skipped = Append(@, p.currentIndex)],
                  k, v)
         ELSE IF target \in broken
         THEN Hang(m, k)
         ELSE [m EXCEPT !.pipes[k].phase = "move",
                        !.pipes[k].dest =
                            VecAdd(WorldPosition(target), handOffset),
                        !.pipes[k].duration = moveSpeed,
                        !.pipes[k].moved = Append(@, p.currentIndex)]

\* animateHandThroughTargets without the validity check of targets[0].
AnimateHandThroughTargetsNoCheck(m, k, v) ==
    LET p == m.pipes[k] IN
    IF Len(p.targets) = 0
    THEN ResolveAnimation(m, k)
    ELSE [m EXCEPT !.hand.pos =
                       VecAdd(WorldPosition(p.targets[1]), handOffset),
                   !.pipes[k].phase = "settle"]

\* An exception raised in the executor of animateHandThroughTargets
\* rejects its promise: the await of playHintAnimation throws in a promise
\* job.
ThrowInExecutor(m, k) ==
    Enqueue([m EXCEPT !.pipes[k].phase = "job", !.pipes[k].failed = TRUE],
            "throw", k)

\* animateHandThroughTargets, up to the scheduleOnce of the settle delay.
AnimateHandThroughTargets(m, k, v) ==
    LET p == m.pipes[k] IN
    IF Len(p.targets) = 0
    THEN ResolveAnimation(m, k)
    ELSE LET firstTarget == p.targets[1] IN
         IF ~v[firstTarget]
         THEN ResolveAnimation(m, k)
         ELSE IF firstTarget \in broken
         THEN ThrowInExecutor(m, k)
         ELSE [m EXCEPT !.hand.pos =
                            VecAdd(WorldPosition(firstTarget), handOffset),
                        !.pipes[k].phase = "settle"]

\* reject(...) of the promise of playHintAnimation: the .then of the show
\* method passes the rejection on to its .catch in a promise job.
RejectHint(m, k) ==
    Enqueue([m EXCEPT !.pipes[k].phase = "job", !.pipes[k].failed = TRUE],
            "pass", k)

\* playHintAnimation, up to its await, for a new pipeline in slot k.
PlayHintAnimation(m, k, hintType, targets, v) ==
    LET fresh == [NoPipe EXCEPT !.live = TRUE, !.hintType = hintType,
                                !.phase = "job",
                                !.requested = Len(targets)]
        m0 == [m EXCEPT !.pipes[k] = fresh]
    IN
    IF Len(targets) < 1
    THEN RejectHint(m0, k)
    ELSE LET hintTargets == Slice(targets)
             m1 == [m0 EXCEPT !.pipes[k].targets = hintTargets,
                              !.pipes[k].firstInvalid = ~v[hintTargets[1]]]
         IN
         IF ~m.hand.exists
         THEN RejectHint(m1, k)      \* this.hand.active throws, caught
         ELSE AnimateHandThroughTargets(
                  [m1 EXCEPT !.hand.active = TRUE], k, v)

PlayCustomHintAnimation(m, k, hintType, targets, v) ==
    PlayHintAnimation(m, k, hintType, targets, v)

\* getDefaultTargets
GetDefaultTargets == <<>>

\* targets || this.getDefaultTargets(): every array is truthy.
OrDefault(arg) == IF arg.given THEN arg.list ELSE GetDefaultTargets

\* showCustomHint without its isActive check.
ShowCustomHintUnguarded(m, targets, hintType, v) ==
    PlayCustomHintAnimation(
        Emit([m EXCEPT !.isActive = TRUE], HINT_START, hintType),
        FirstFree(m.pipes), hintType, targets, v)

ShowCustomHint(m, targets, hintType, v) ==
    IF m.isActive
    THEN m
    ELSE PlayCustomHintAnimation(
             Emit([m EXCEPT !.isActive = TRUE], HINT_START, hintType),
             FirstFree(m.pipes), hintType, targets, v)

ShowInactivityHint(m, arg, v) ==
    IF m.isActive
    THEN m
    ELSE LET hintTargets == OrDefault(arg) IN
         IF Len(hintTargets) = 0
         THEN m
         ELSE PlayHintAnimation(
                  Emit([m EXCEPT !.isActive = TRUE], HINT_START, INACTIVITY),
                  FirstFree(m.pipes), INACTIVITY, hintTargets, v)

ShowStartHint(m, arg, v) ==
    IF m.isActive
    THEN m
    ELSE LET hintTargets == OrDefault(arg) IN
         IF Len(hintTargets) = 0
         THEN m
         ELSE PlayHintAnimation(
                  Emit([m EXCEPT !.isActive = TRUE], HINT_START, START_GAME),
                  FirstFree(m.pipes), START_GAME, hintTargets, v)

ShowHint(m, hintType, arg, v) ==
    IF m.isActive
    THEN m
    ELSE CASE hintType = START_GAME -> ShowStartHint(m, arg, v)
           [] hintType = INACTIVITY -> ShowInactivityHint(m, arg, v)
           [] hintType = CUSTOM ->
                  ShowCustomHint(m, IF arg.given THEN arg.list ELSE <<>>,
                                 CUSTOM, v)
           [] OTHER -> m

\* The handlers .then and .catch of the show methods.
EndHint(m, k) ==
    Emit([m EXCEPT !.isActive = FALSE, !.pipes[k] = NoPipe,
                   !.ended = Append(@, m.pipes[k])],
         HINT_END, m.pipes[k].hintType)

\* playPressAnimation, up to the start of its tween.
PlayPressAnimation(m, k) ==
    LET originalScale == handScale
        pressedScale ==
            <<(originalScale[1] * pressAnimationScale) \div 10,
              (originalScale[2] * pressAnimationScale) \div 10,
              originalScale[3]>>
    IN [m EXCEPT !.pipes[k].phase = "pressUp",
                 !.pipes[k].dest = Zero,
                 !.pipes[k].duration = PressAnimationDuration,
                 !.pipes[k].originalScale = originalScale,
                 !.pipes[k].pressedScale = pressedScale,
                 !.pipes[k].pressed = Append(@, m.pipes[k].currentIndex)]

\* One promise job.
RunJob(m, job, v) ==
    LET k == job.sid IN
    CASE job.kind = "resume" ->
             Enqueue([m EXCEPT !.hand.active = FALSE], "then", k)
      [] job.kind = "then" -> EndHint(m, k)
      [] job.kind = "throw" -> Enqueue(m, "pass", k)
      [] job.kind = "pass" -> Enqueue(m, "catch", k)
      [] job.kind = "catch" -> EndHint(m, k)
      [] job.kind = "next" ->
             AnimateNextTarget([m EXCEPT !.pipes[k].currentIndex = @ + 1],
                               k, v)

\* The promise-job queue runs until it is empty.
RECURSIVE RunJobs(_, _)
RunJobs(m, v) ==
    IF m.micro = <<>>
    THEN m
    ELSE RunJobs(RunJob([m EXCEPT !.micro = Tail(@)], Head(m.micro), v), v)

\* stop() without its isActive check.
StopUnguarded(m) ==
    Emit([m EXCEPT !.hand.active = FALSE, !.isActive = FALSE],
         HINT_END, NoPayload)

\* stop(): tween(this.hand) is a new tween that was never started, so its
\* stop() removes no running action; the scheduleOnce of the settle delay
\* is not unscheduled either.
Stop(m) ==
    IF m.isActive
    THEN Emit([m EXCEPT !.hand.active = FALSE,
                        !.isActive = FALSE,
                        !.pipes = [k \in Slots |->
                                      IF m.pipes[k].live
                                      THEN [m.pipes[k] EXCEPT !.stopped = TRUE]
                                      ELSE m.pipes[k]]],
              HINT_END, NoPayload)
    ELSE m

\* ------------------------------------------------------------------ steps

\* The open hint after the events es, starting from o.
RECURSIVE OpenAfter(_, _)
OpenAfter(o, es) ==
    IF es = <<>>
    THEN o
    ELSE OpenAfter(CASE Head(es).name = HINT_START -> TRUE
                     [] Head(es).name = HINT_END -> FALSE
                     [] OTHER -> o,
                   Tail(es))

Commit(m) ==
    /\ pipes' = m.pipes
    /\ micro' = m.micro
    /\ hand' = m.hand
    /\ isActive' = m.isActive
    /\ emitted' = m.emitted
    /\ ended' = m.ended
    /\ openHint' = OpenAfter(openHint, m.emitted)

\* The field initialisers of the component.
Fields ==
    /\ handPrefab \in BOOLEAN
    /\ hand = NoHand
    /\ handScale = <<10, 10, 10>>
    /\ handOffset = Zero
    /\ pressAnimationScale = 12
    /\ moveSpeed = DefaultMoveSpeed
    /\ inactivityTime = 0
    /\ inactivityDelay = DefaultInactivityDelay
    /\ isActive = FALSE
    /\ isReady = FALSE
    /\ scheduled = FALSE
    /\ customTargets = Undefined
    /\ pipes = [k \in Slots |-> NoPipe]
    /\ micro = <<>>
    /\ emitted = <<>>
    /\ ended = <<>>
    /\ openHint = FALSE
    /\ op = "init"

\* The component is the only Tutorial of the scene and its onLoad has run;
\* every target handed in has a worldPosition.
Init ==
    /\ Fields
    /\ broken = {}
    /\ instance = Self
    /\ lifecycle = [c \in Components |-> IF c = Self THEN "loaded" ELSE "new"]

\* The step emits no event and ends no pipeline.
Silent == emitted' = <<>> /\ ended' = <<>>

\* createHand
CreateHand ==
    IF ~handPrefab
    THEN hand
    ELSE [exists |-> TRUE, active |-> FALSE, pos |-> Zero,
          scale |-> handScale]

\* start() -> setup(): createHand, startInactivityCheck, isReady.
Setup ==
    /\ op' = "setup"
    /\ Silent
    /\ IF isReady
       THEN UNCHANGED <<hand, inactivityTime, scheduled, isReady>>
       ELSE /\ hand' = CreateHand
            /\ inactivityTime' = 0
            /\ scheduled' = TRUE
            /\ isReady' = TRUE
    /\ UNCHANGED <<config, scene, inactivityDelay, isActive, customTargets,
                   pipes, micro, openHint>>

Sequencer(m) ==
    /\ Commit(m)
    /\ UNCHANGED <<config, scene, inactivityTime, inactivityDelay, isReady,
                   scheduled, customTargets>>

\* The inputs of a request.  A request made while isActive returns before
\* it reads any argument, so one value stands for all of them.
Inputs(S) == IF isActive THEN { CHOOSE x \in S : TRUE } ELSE S

ShowHintCall(args) ==
    \E hintType \in Inputs(HintType), arg \in Inputs(args),
       v \in Inputs(FirstValidities) :
        /\ op' = "showHint"
        /\ Sequencer(ShowHint(Machine, hintType, arg, v))

ShowStartHintCall(args) ==
    \E arg \in Inputs(args), v \in Inputs(FirstValidities) :
        /\ op' = "showStartHint"
        /\ Sequencer(ShowStartHint(Machine, arg, v))

ShowInactivityHintCall(args) ==
    \E arg \in Inputs(args), v \in Inputs(FirstValidities) :
        /\ op' = "showInactivityHint"
        /\ Sequencer(ShowInactivityHint(Machine, arg, v))

ShowCustomHintCall(lists, types) ==
    \E targets \in Inputs(lists), hintType \in Inputs(types),
       v \in Inputs(FirstValidities) :
        /\ op' = "showCustomHint"
        /\ Sequencer(ShowCustomHint(Machine, targets, hintType, v))

StopCall ==
    /\ op' = "stop"
    /\ Sequencer(Stop(Machine))

\* setCustomTargets
SetCustomTargets ==
    \E targets \in { l \in TargetLists : Len(l) = 1 } :
        /\ op' = "setCustomTargets"
        /\ customTargets' = Given(targets)
        /\ Silent
        /\ UNCHANGED <<config, scene, hand, inactivityTime, inactivityDelay,
                       isActive, isReady, scheduled, pipes, micro, openHint>>

\* A reset that takes one second off the counter.
ResetByOne(time) == IF time > 0 THEN time - 1 ELSE 0

\* this.inactivityTime = 0
Reset(time) == 0

\* resetInactivityTimer
ResetInactivityTimer ==
    /\ op' = "resetInactivityTimer"
    /\ inactivityTime' = Reset(inactivityTime)
    /\ Silent
    /\ UNCHANGED <<config, scene, hand, inactivityDelay, isActive, isReady,
                   scheduled, customTargets, pipes, micro, openHint>>

\* setInactivityDelay without the call of resetInactivityTimer.
SetInactivityDelayOnly ==
    \E seconds \in Delays :
        /\ op' = "setInactivityDelay"
        /\ inactivityDelay' = seconds
        /\ Silent
        /\ UNCHANGED <<config, scene, hand, inactivityTime, isActive, isReady,
                       scheduled, customTargets, pipes, micro, openHint>>

\* setInactivityDelay
SetInactivityDelay ==
    \E seconds \in Delays :
        /\ op' = "setInactivityDelay"
        /\ inactivityDelay' = seconds
        /\ inactivityTime' = 0
        /\ Silent
        /\ UNCHANGED <<config, scene, hand, isActive, isReady, scheduled,
                       customTargets, pipes, micro, openHint>>

\* this.inactivityTime += 2
ElapsedTwice(time) == time + 2

\* this.inactivityTime += 1
Elapsed(time) == time + 1

\* checkInactivity, the 1 s repeating callback.
CheckInactivity ==
    /\ scheduled
    /\ micro = <<>>
    /\ op' = "checkInactivity"
    /\ IF isActive \/ ~isReady
       THEN /\ Silent
            /\ UNCHANGED <<inactivityTime, pipes, micro, hand, isActive,
                           openHint>>
       ELSE IF Elapsed(inactivityTime) >= inactivityDelay
            THEN /\ Len(GetDefaultTargets) > 0 => FreeSlots(pipes) # {}
                 /\ \E v \in FirstValidities :
                        Commit(ShowInactivityHint(
                            Emit(Machine, PLAYER_INACTIVE, NoPayload),
                            Undefined, v))
                 /\ inactivityTime' = 0
            ELSE /\ inactivityTime' = Elapsed(inactivityTime)
                 /\ Silent
                 /\ UNCHANGED <<pipes, micro, hand, isActive, openHint>>
    /\ UNCHANGED <<config, scene, inactivityDelay, isReady, scheduled,
                   customTargets>>

\* An engine callback of pipeline k runs once the promise jobs have run.
Pending(k, phase) ==
    /\ micro = <<>>
    /\ pipes[k].live
    /\ pipes[k].phase = phase

\* The scheduleOnce callback of the 0.5 s settle delay.
SettleTimer ==
    \E k \in Slots, v \in Validities :
        /\ Pending(k, "settle")
        /\ op' = "settleTimer"
        /\ Sequencer(AnimateNextTarget(Machine, k, v))

\* The move tween arrives and its .call starts the press animation.
MoveArrive ==
    \E k \in Slots :
        /\ Pending(k, "move")
        /\ op' = "moveArrive"
        /\ Sequencer(PlayPressAnimation(
               [Machine EXCEPT !.hand.pos = pipes[k].dest], k))

\* A press tween that resolves the press promise as soon as the pressed
\* scale is reached.
PressUpDoneResolves ==
    \E k \in Slots :
        /\ Pending(k, "pressUp")
        /\ op' = "pressUpDone"
        /\ Sequencer(Enqueue([Machine EXCEPT
                                 !.hand.scale = pipes[k].pressedScale,
                                 !.pipes[k].phase = "job"],
                             "next", k))

\* First phase of the press tween: scale reaches pressedScale.
PressUpDone ==
    \E k \in Slots :
        /\ Pending(k, "pressUp")
        /\ op' = "pressUpDone"
        /\ Sequencer([Machine EXCEPT !.hand.scale = pipes[k].pressedScale,
                                     !.pipes[k].phase = "pressDown"])

\* Second phase: scale is back at originalScale.
PressDownDone ==
    \E k \in Slots :
        /\ Pending(k, "pressDown")
        /\ op' = "pressDownDone"
        /\ Sequencer([Machine EXCEPT !.hand.scale = pipes[k].originalScale,
                                     !.pipes[k].phase = "pressHold"])

\* The press tween without its final .call: the press promise is never
\* resolved.
PressHoldDoneNoResolve ==
    \E k \in Slots :
        /\ Pending(k, "pressHold")
        /\ op' = "pressHoldDone"
        /\ Sequencer([Machine EXCEPT !.pipes[k].phase = "hung"])

\* The 0.3 s delay ends and .call resolves the press promise.
PressHoldDone ==
    \E k \in Slots :
        /\ Pending(k, "pressHold")
        /\ op' = "pressHoldDone"
        /\ Sequencer(Enqueue([Machine EXCEPT !.pipes[k].phase = "job",
                                             !.pipes[k].pressedScale = Zero,
                                             !.pipes[k].originalScale = Zero,
                                             !.pipes[k].duration = 0],
                             "next", k))

\* The running code returns to the engine: the promise jobs run.
RunPromiseJobs ==
    \E v \in Validities :
        /\ micro # <<>>
        /\ op' = "promiseJobs"
        /\ Sequencer(RunJobs(Machine, v))

\* In Spec a request is made when no closure of an earlier session is
\* still pending (or is dropped because a hint is showing); SpecOverlap
\* lifts this.
Quiet == isActive \/ LiveSlots(pipes) = {}

Next ==
    \/ Setup
    \/ Quiet /\ ShowHintCall(TargetArgs)
    \/ Quiet /\ ShowStartHintCall(TargetArgs)
    \/ Quiet /\ ShowInactivityHintCall(TargetArgs)
    \/ Quiet /\ ShowCustomHintCall(TargetLists, {CUSTOM, START_GAME})
    \/ StopCall
    \/ SetCustomTargets
    \/ ResetInactivityTimer
    \/ SetInactivityDelay
    \/ CheckInactivity
    \/ SettleTimer
    \/ MoveArrive
    \/ PressUpDone
    \/ PressDownDone
    \/ PressHoldDone
    \/ RunPromiseJobs

Spec == Init /\ [][Next]_vars

\* Two sessions side by side: a request is made whenever the code accepts
\* it, also while closures of a stopped session are pending.
Free == isActive \/ FreeSlots(pipes) # {}

ShortLists == { l \in TargetLists : Len(l) <= 2 }

NextOverlap ==
    \/ Setup
    \/ Free /\ ShowStartHintCall({ Given(l) : l \in ShortLists })
    \/ Free /\ ShowCustomHintCall(ShortLists, {CUSTOM})
    \/ StopCall
    \/ SettleTimer
    \/ MoveArrive
    \/ PressUpDone
    \/ PressDownDone
    \/ PressHoldDone
    \/ RunPromiseJobs

SpecOverlap == Init /\ [][NextOverlap]_vars

\* The engine fires every scheduled one-shot timer, completes every
\* started tween and runs the promise jobs whenever the running code
\* returns.
Engine ==
    \/ SettleTimer
    \/ MoveArrive
    \/ PressUpDone
    \/ PressDownDone
    \/ PressHoldDone
    \/ RunPromiseJobs

\* ------------------------------------------------- configuration setters

\* A method that touches neither the sequencer nor the inactivity monitor.
Aside ==
    /\ Silent
    /\ UNCHANGED <<scene, handPrefab, inactivityTime, inactivityDelay,
                   isActive, isReady, scheduled, customTargets, pipes, micro,
                   openHint>>

\* setHandScale
SetHandScaleTo(scale) ==
    /\ handScale' = scale
    /\ hand' = IF hand.exists THEN [hand EXCEPT !.scale = scale] ELSE hand
    /\ Aside
    /\ UNCHANGED <<handOffset, pressAnimationScale, moveSpeed>>

SetHandScale ==
    \E scale \in Scales :
        /\ op' = "setHandScale"
        /\ SetHandScaleTo(scale)

\* setHandScaleUniform
SetHandScaleUniform ==
    \E scale \in UniformScales :
        /\ op' = "setHandScaleUniform"
        /\ SetHandScaleTo(<<scale, scale, scale>>)

\* setHandOffset
SetHandOffset ==
    \E offset \in Offsets :
        /\ op' = "setHandOffset"
        /\ handOffset' = offset
        /\ Aside
        /\ UNCHANGED <<hand, handScale, pressAnimationScale, moveSpeed>>

\* setHandOffsetXY
SetHandOffsetXY ==
    \E xy \in OffsetsXY :
        /\ op' = "setHandOffsetXY"
        /\ handOffset' = <<xy[1], xy[2], handOffset[3]>>
        /\ Aside
        /\ UNCHANGED <<hand, handScale, pressAnimationScale, moveSpeed>>

\* setPressAnimationScale
SetPressAnimationScale ==
    \E scale \in PressScales :
        /\ op' = "setPressAnimationScale"
        /\ pressAnimationScale' = scale
        /\ Aside
        /\ UNCHANGED <<hand, handScale, handOffset, moveSpeed>>

\* setMoveSpeed
SetMoveSpeed ==
    \E speed \in Speeds :
        /\ op' = "setMoveSpeed"
        /\ moveSpeed' = speed
        /\ Aside
        /\ UNCHANGED <<hand, handScale, handOffset, pressAnimationScale>>

\* testHandPosition
TestHandPosition ==
    \E target \in {1}, v \in FirstValidities :
        /\ op' = "testHandPosition"
        /\ hand' = IF ~hand.exists \/ ~v[target]
                   THEN hand
                   ELSE [hand EXCEPT
                            !.active = TRUE,
                            !.pos = VecAdd(WorldPosition(target), handOffset)]
        /\ Aside
        /\ UNCHANGED <<handScale, handOffset, pressAnimationScale, moveSpeed>>

NextConfig ==
    \/ Setup
    \/ Quiet /\ ShowCustomHintCall(ShortLists, {CUSTOM})
    \/ SetHandScale
    \/ SetHandScaleUniform
    \/ SetHandOffset
    \/ SetHandOffsetXY
    \/ SetPressAnimationScale
    \/ SetMoveSpeed
    \/ TestHandPosition
    \/ Engine

SpecConfig == Init /\ [][NextConfig]_vars

\* ----------------------------------------------------------- singleton

\* onLoad that takes the accessor over from an earlier instance.
OnLoadReplace(c) ==
    /\ lifecycle[c] = "new"
    /\ op' = "onLoad"
    /\ instance' = c
    /\ lifecycle' = [lifecycle EXCEPT ![c] = "loaded"]

\* onLoad of component c: the first one becomes Tutorial.instance, a later
\* one calls this.destroy(), and its onDestroy runs at the end of the frame.
OnLoad(c) ==
    /\ lifecycle[c] = "new"
    /\ op' = "onLoad"
    /\ IF instance = 0
       THEN /\ instance' = c
            /\ lifecycle' = [lifecycle EXCEPT ![c] = "loaded"]
       ELSE /\ instance' = instance
            /\ lifecycle' = [lifecycle EXCEPT ![c] = "rejected"]

\* onDestroy of component c, after its own destroy() or when the game
\* destroys it.  The engine drops the callbacks a destroyed component has
\* scheduled.
OnDestroy(c) ==
    /\ lifecycle[c] \in {"loaded", "rejected"}
    /\ op' = "onDestroy"
    /\ instance' = IF instance = c THEN 0 ELSE instance
    /\ lifecycle' = [lifecycle EXCEPT
                        ![c] = IF @ = "rejected" THEN "discarded"
                               ELSE "destroyed"]
    /\ IF c = Self
       THEN /\ scheduled' = FALSE
            /\ hand' = IF hand.exists THEN NoHand ELSE hand
       ELSE UNCHANGED <<scheduled, hand>>

Lifecycle(A) ==
    /\ A
    /\ Silent
    /\ UNCHANGED <<config, broken, inactivityTime, inactivityDelay, isActive,
                   isReady, customTargets, pipes, micro, openHint>>

OnLoadCall ==
    \E c \in Components :
        /\ Lifecycle(OnLoad(c))
        /\ UNCHANGED <<scheduled, hand>>

OnDestroyCall == \E c \in Components : Lifecycle(OnDestroy(c))

\* No Tutorial component of the scene has been loaded yet.
InitScene ==
    /\ Fields
    /\ broken = {}
    /\ instance = 0
    /\ lifecycle = [c \in Components |-> "new"]

NextScene ==
    \/ OnLoadCall
    \/ OnDestroyCall
    \/ lifecycle[Self] = "loaded" /\ Setup
    \/ ResetInactivityTimer
    \/ SetInactivityDelay
    \/ CheckInactivity

SpecScene == InitScene /\ [][NextScene]_vars

\* Sessions whose targets may lack a worldPosition (a list built by hand
\* or from a stale object): reading worldPos.x of such a target throws.
InitFault ==
    /\ Fields
    /\ broken \in SUBSET (1 .. 2)
    /\ instance = Self
    /\ lifecycle = [c \in Components |-> IF c = Self THEN "loaded" ELSE "new"]

NextFault ==
    \/ Setup
    \/ Quiet /\ ShowStartHintCall({ Given(l) : l \in ShortLists })
    \/ Quiet /\ ShowCustomHintCall(ShortLists, {CUSTOM})
    \/ ResetInactivityTimer
    \/ SettleTimer
    \/ MoveArrive
    \/ PressUpDone
    \/ PressDownDone
    \/ PressHoldDone
    \/ RunPromiseJobs

SpecFault == InitFault /\ [][NextFault]_vars

NextLive ==
    \/ Setup
    \/ Quiet /\ ShowStartHintCall({ Given(l) : l \in ShortLists })
    \/ Quiet /\ ShowCustomHintCall(ShortLists, {CUSTOM})
    \/ StopCall
    \/ Engine

SpecLive == Init /\ [][NextLive]_vars /\ WF_vars(Engine)

\* ----------------------------------------------------------------- claims

Requests ==
    {"showHint", "showStartHint", "showInactivityHint", "showCustomHint"}

AnimationPhases == {"settle", "move", "pressUp", "pressDown", "pressHold"}

\* The step wrote the sequencer state r.
Handled(r) ==
    /\ pipes' = r.pipes
    /\ micro' = r.micro
    /\ hand' = r.hand
    /\ isActive' = r.isActive
    /\ emitted' = r.emitted

\* C1: at most one hint session at a time: while the animation of one
\* session is pending (settle delay, move or press), no closure of another
\* session is pending.
C1_OneSessionAtATime ==
    \A j, k \in Slots :
        (j # k /\ pipes[j].live /\ pipes[j].phase \in AnimationPhases)
            => ~pipes[k].live

\* The events es pair up, starting with an open hint-start or not.
RECURSIVE Paired(_, _)
Paired(o, es) ==
    IF es = <<>>
    THEN TRUE
    ELSE CASE Head(es).name = HINT_START -> ~o /\ Paired(TRUE, Tail(es))
           [] Head(es).name = HINT_END -> o /\ Paired(FALSE, Tail(es))
           [] OTHER -> Paired(o, Tail(es))

\* C2: hint-start and hint-end pair exactly once: a hint-start is emitted
\* only when no hint-start is open, a hint-end only when one is.
C2_StartEndPair == [][Paired(openHint, emitted')]_vars

\* Every request, whatever its arguments, returns the sequencer state m as
\* it is.
DropsEveryRequest(m) ==
    \A v \in FirstValidities :
        /\ \A hintType \in HintType, arg \in TargetArgs :
               ShowHint(m, hintType, arg, v) = m
        /\ \A arg \in TargetArgs :
               /\ ShowStartHint(m, arg, v) = m
               /\ ShowInactivityHint(m, arg, v) = m
        /\ \A targets \in TargetLists, hintType \in HintType :
               ShowCustomHint(m, targets, hintType, v) = m

\* C3: a hint request made while a session is active, of any kind and with
\* any arguments, changes nothing (active flag, pipelines, pointer,
\* inactivity counter) and emits nothing.
C3_RequestWhileActiveIsNoOp ==
    /\ [](isActive => DropsEveryRequest(Machine))
    /\ [][(isActive /\ op' \in Requests)
           => /\ emitted' = <<>>
              /\ UNCHANGED <<config, scene, hand, inactivityTime, inactivityDelay,
                             isActive, isReady, scheduled, customTargets,
                             pipes, micro, openHint>>]_vars

C3_Witness ==
    /\ op \in Requests
    /\ isActive
    /\ emitted = <<>>
    /\ \E k \in Slots : pipes[k].live /\ pipes[k].phase = "move"

\* The step is a hint request whose resolved target list is empty.
EmptyRequest ==
    \E v \in FirstValidities :
        \/ /\ op' = "showHint"
           /\ \E hintType \in HintType, arg \in {Undefined, Given(<<>>)} :
                  Handled(ShowHint(Machine, hintType, arg, v))
        \/ /\ op' = "showStartHint"
           /\ \E arg \in {Undefined, Given(<<>>)} :
                  Handled(ShowStartHint(Machine, arg, v))
        \/ /\ op' = "showInactivityHint"
           /\ \E arg \in {Undefined, Given(<<>>)} :
                  Handled(ShowInactivityHint(Machine, arg, v))
        \/ /\ op' = "showCustomHint"
           /\ \E hintType \in HintType :
                  Handled(ShowCustomHint(Machine, <<>>, hintType, v))

\* C4: a hint request whose resolved target list is empty emits no event,
\* leaves the active flag and the pointer's visibility as they are and
\* leaves nothing behind that would emit later.
C4_EmptyRequestRejected ==
    [][EmptyRequest
        => /\ emitted' = <<>>
           /\ isActive' = isActive
           /\ hand'.active = hand.active
           /\ micro' = micro]_vars

\* C5: stop() during an active session hides the pointer, clears the
\* active flag and emits one hint-end without payload; and a session that
\* was stopped takes no further step.
C5_StopEndsTheSession ==
    [][/\ (op' = "stop" /\ isActive)
           => /\ ~hand'.active
              /\ ~isActive'
              /\ emitted' = <<Event(HINT_END, NoPayload)>>
       /\ \A k \in Slots :
              (pipes[k].live /\ pipes[k].stopped) => pipes'[k] = pipes[k]]_vars

\* C6: stop() with no active session changes nothing and emits nothing.
C6_StopWhenIdleIsNoOp ==
    [][(~isActive /\ op' = "stop")
        => /\ emitted' = <<>>
           /\ UNCHANGED <<config, scene, hand, inactivityTime, inactivityDelay,
                          isActive, isReady, scheduled, customTargets,
                          pipes, micro, openHint>>]_vars

C6_Witness ==
    /\ op = "stop"
    /\ ~isActive
    /\ emitted = <<>>
    /\ hand.exists
    /\ inactivityTime > 0

\* C7: the tick does nothing while a session is active or the component
\* is not ready; otherwise it adds exactly 1 to inactivityTime and, when
\* that reaches inactivityDelay, emits player-inactive first, runs the
\* inactivity hint flow and leaves inactivityTime at 0, whether or not a
\* session was started.
C7_Tick ==
    [][op' = "checkInactivity"
        => IF isActive \/ ~isReady
           THEN /\ inactivityTime' = inactivityTime
                /\ emitted' = <<>>
           ELSE IF inactivityTime + 1 >= inactivityDelay
                THEN /\ inactivityTime' = 0
                     /\ emitted' # <<>>
                     /\ Head(emitted') = Event(PLAYER_INACTIVE, NoPayload)
                     /\ \/ Tail(emitted') = <<>> /\ ~isActive'
                        \/ /\ Tail(emitted') =
                                  <<Event(HINT_START, INACTIVITY)>>
                           /\ isActive'
                ELSE /\ inactivityTime' = inactivityTime + 1
                     /\ emitted' = <<>>]_vars

C7_Witness ==
    /\ op = "checkInactivity"
    /\ emitted = <<Event(PLAYER_INACTIVE, NoPayload)>>
    /\ inactivityTime = 0
    /\ inactivityDelay = DefaultInactivityDelay
    /\ ~isActive

\* C8: with the component ready and no session active, a tick before the
\* d-th emits nothing, and the d-th tick since the last reset emits
\* player-inactive and then hint-start(Inactivity).
C8_DthTickStartsHint ==
    [][(op' = "checkInactivity" /\ ~isActive /\ isReady)
        => IF inactivityTime + 1 >= inactivityDelay
           THEN emitted' = <<Event(PLAYER_INACTIVE, NoPayload),
                             Event(HINT_START, INACTIVITY)>>
           ELSE emitted' = <<>>]_vars

\* C9: a session whose first target is invalid when it starts does not
\* animate: the start positions nothing and schedules nothing, the session
\* never moves or presses, nothing else is emitted while it is pending
\* (unless stop() is called), and the promise jobs hide the pointer and
\* emit hint-end with the session's type.
C9_InvalidFirstTarget ==
    [][\A k \in Slots :
        /\ (~pipes[k].live /\ pipes'[k].live /\ pipes'[k].firstInvalid)
               => /\ hand'.pos = hand.pos
                  /\ hand'.scale = hand.scale
                  /\ emitted' =
                         <<Event(HINT_START, pipes'[k].hintType)>>
        /\ (pipes'[k].live /\ pipes'[k].firstInvalid)
               => /\ pipes'[k].phase = "job"
                  /\ pipes'[k].moved = <<>>
                  /\ pipes'[k].pressed = <<>>
        /\ (pipes[k].live /\ pipes[k].firstInvalid)
               => CASE op' = "promiseJobs" ->
                           /\ ~pipes'[k].live
                           /\ ~hand'.active
                           /\ ~isActive'
                           /\ hand'.pos = hand.pos
                           /\ emitted' =
                                  <<Event(HINT_END, pipes[k].hintType)>>
                    [] op' = "stop" -> TRUE
                    [] OTHER -> emitted' = <<>>]_vars

C9_Witness ==
    \E k \in Slots :
        /\ pipes[k].live
        /\ pipes[k].firstInvalid
        /\ Len(pipes[k].targets) = SliceEnd
        /\ hand.exists
        /\ hand.active
        /\ emitted = <<Event(HINT_START, pipes[k].hintType)>>

\* The first index from `from` on whose target is valid under v, or the
\* length of the list.
FirstValidFrom(targets, from, v) ==
    LET S == { i \in from .. Len(targets) - 1 : v[targets[i + 1]] } IN
    IF S = {}
    THEN Len(targets)
    ELSE CHOOSE i \in S : \A j \in S : i <= j

\* Pipeline p, whose next move is due from index `from` on with the
\* validity flags v, becomes q: the invalid targets are passed over and the
\* move toward the first valid one starts, or the list is exhausted.
SkipsInvalid(p, q, from, v) ==
    LET i == FirstValidFrom(p.targets, from, v) IN
    IF i < Len(p.targets)
    THEN /\ q.live
         /\ q.phase = "move"
         /\ q.currentIndex = i
         /\ q.dest = VecAdd(WorldPosition(p.targets[i + 1]), handOffset)
         /\ q.moved = Append(p.moved, i)
         /\ q.pressed = p.pressed
    ELSE \/ ~q.live
         \/ /\ q.phase = "job"
            /\ q.moved = p.moved
            /\ q.pressed = p.pressed

\* C10: a target that is invalid when its move step is due is passed over
\* without a move or a press and without an error, and the sequence goes on
\* to the next target or to completion; with a valid first and an invalid
\* second target the session presses exactly once and completes.
C10_InvalidTargetSkipped ==
    [][/\ \A k \in Slots, v \in Validities :
           /\ ( /\ op' = "settleTimer"
                /\ Pending(k, "settle")
                /\ Handled(AnimateNextTarget(Machine, k, v)) )
                  => /\ SkipsInvalid(pipes[k], pipes'[k],
                                     pipes[k].currentIndex, v)
                     /\ emitted' = <<>>
           /\ ( /\ op' = "promiseJobs"
                /\ micro = <<Job("next", k)>>
                /\ Handled(RunJobs(Machine, v)) )
                  => /\ SkipsInvalid(pipes[k], pipes'[k],
                                     pipes[k].currentIndex + 1, v)
                     /\ ~pipes'[k].live =>
                            emitted' = <<Event(HINT_END, pipes[k].hintType)>>
                     /\ pipes'[k].live => emitted' = <<>>
       /\ \A i \in 1 .. Len(ended') :
              (Len(ended'[i].targets) = 2 /\ ended'[i].skipped = <<1>>)
                  => /\ ended'[i].moved = <<0>>
                     /\ ended'[i].pressed = <<0>>
                     /\ ended'[i].phase = "job"
                     /\ ~hand'.active]_vars

C10_Witness ==
    /\ Len(ended) = 1
    /\ ended[1].targets = <<1, 2>>
    /\ ended[1].moved = <<0>>
    /\ ended[1].pressed = <<0>>
    /\ ended[1].skipped = <<1>>
    /\ ~ended[1].stopped
    /\ emitted = <<Event(HINT_END, ended[1].hintType)>>
    /\ hand.pos = VecAdd(WorldPosition(1), handOffset)

\* The indices in s are in increasing order.
Increasing(s) == \A i, j \in 1 .. Len(s) : i < j => s[i] < s[j]

\* Pipeline p works on the first min(n, 3) targets of the n requested, in
\* list order, and has moved to and pressed none beyond them.
FirstThree(p) ==
    LET n == IF p.requested < 3 THEN p.requested ELSE 3 IN
    /\ Len(p.targets) = n
    /\ \A i \in 1 .. n : p.targets[i] = i
    /\ \A i \in 1 .. Len(p.moved) : p.moved[i] \in 0 .. n - 1
    /\ \A i \in 1 .. Len(p.pressed) : p.pressed[i] \in 0 .. n - 1
    /\ Increasing(p.moved)
    /\ Increasing(p.pressed)
    /\ Len(p.moved) <= 3
    /\ Len(p.pressed) <= 3

\* C11: a session works on exactly the targets at indices 0 .. min(n, 3) - 1
\* of the n requested, in list order: no target at index 3 or above is
\* moved to or pressed, and there are at most 3 moves and 3 presses.
C11_FirstThreeOnly ==
    /\ \A k \in Slots : pipes[k].live => FirstThree(pipes[k])
    /\ \A i \in 1 .. Len(ended) : FirstThree(ended[i])

C11_Witness ==
    \E i \in 1 .. Len(ended) :
        /\ ended[i].requested > SliceEnd
        /\ ended[i].moved = <<0, 1, 2>>
        /\ ended[i].pressed = <<0, 1, 2>>
        /\ ~ended[i].stopped

\* C12: a session in which a step failed still tears down: when it ends
\* the pointer is invisible, the active flag is false and hint-end with
\* its type is emitted; and no failure leaves the session pending for ever.
C12_FailureTearsDown ==
    [][/\ \A i \in 1 .. Len(ended') :
              ended'[i].failed
                  => /\ ~hand'.active
                     /\ ~isActive'
                     /\ \E j \in 1 .. Len(emitted') :
                            emitted'[j] = Event(HINT_END, ended'[i].hintType)
       /\ \A k \in Slots : pipes'[k].live => pipes'[k].phase # "hung"]_vars

\* A session of type hintType has just completed and the sequencer is
\* idle: a request with a target would be accepted.
Completed(hintType) ==
    /\ ~isActive
    /\ ~hand.active
    /\ \E i \in 1 .. Len(ended) : ended[i].hintType = hintType
    /\ \E j \in 1 .. Len(emitted) : emitted[j] = Event(HINT_END, hintType)
    /\ \A v \in FirstValidities :
           ShowStartHint(Machine, Given(<<1>>), v).isActive

\* C13: when the engine fires every timer and completes every tween, each
\* accepted session eventually completes, whatever the validity of its
\* targets at each step: pointer invisible, hint-end with its type emitted,
\* active flag false, and the next request is accepted.
C13_SessionCompletes ==
    \A k \in Slots, hintType \in {START_GAME, CUSTOM} :
        (pipes[k].live /\ pipes[k].hintType = hintType)
            ~> Completed(hintType)

C13_Witness ==
    /\ Completed(CUSTOM)
    /\ Len(ended) = 1
    /\ ended[1].pressed = <<0, 1>>
    /\ ~ended[1].stopped
    /\ emitted = <<Event(HINT_END, CUSTOM)>>

\* C14: resetInactivityTimer leaves inactivityTime at exactly 0, once or
\* repeated, and changes nothing else: not the active flag, the running
\* session or the pointer.
C14_ResetIsIdempotent ==
    [][op' = "resetInactivityTimer"
        => /\ inactivityTime' = 0
           /\ Reset(inactivityTime') = inactivityTime'
           /\ Reset(Reset(inactivityTime)) = Reset(inactivityTime)
           /\ emitted' = <<>>
           /\ UNCHANGED <<config, scene, hand, inactivityDelay, isActive,
                          isReady, scheduled, customTargets, pipes, micro,
                          openHint>>]_vars

C14_Witness ==
    /\ op = "resetInactivityTimer"
    /\ inactivityTime = 0
    /\ isActive
    /\ hand.active
    /\ \E k \in Slots : pipes[k].live /\ pipes[k].phase = "pressUp"

\* The componentwise sum of two vectors.
Sum3(a, b) == <<a[1] + b[1], a[2] + b[2], a[3] + b[3]>>

\* C15: the pointer is placed on the first target, and every move is
\* aimed, at the target's world position plus the pointer offset in force
\* when the step starts, summed in x, y and z; the move arrives at its aim.
C15_OffsetAdded ==
    [][\A k \in Slots :
        /\ (~pipes[k].live /\ pipes'[k].live /\ pipes'[k].phase = "settle")
               => hand'.pos =
                      Sum3(WorldPosition(pipes'[k].targets[1]), handOffset)
        /\ (pipes'[k].live /\ pipes'[k].phase = "move"
                /\ pipes[k].phase # "move")
               => pipes'[k].dest =
                      Sum3(WorldPosition(
                               pipes'[k].targets[pipes'[k].currentIndex + 1]),
                           handOffset)
        /\ (op' = "moveArrive" /\ pipes[k].phase = "move"
                /\ pipes'[k].phase = "pressUp")
               => hand'.pos = pipes[k].dest]_vars

C15_Witness ==
    /\ op = "moveArrive"
    /\ handOffset = <<0, 1, 0>>
    /\ hand.pos = <<5, 1, 5>>
    /\ \E k \in Slots : pipes[k].live /\ pipes[k].targets[1] = 1

Setters ==
    {"setHandScale", "setHandScaleUniform", "setHandOffset",
     "setHandOffsetXY", "setPressAnimationScale", "setMoveSpeed"}

\* C16: a configuration setter called while a move or a press is in flight
\* changes neither the pointer (position, scale, visibility) nor the step in
\* flight (destination, target scale, duration).
C16_SetterNotRetroactive ==
    [][(/\ op' \in Setters
        /\ \E k \in Slots :
               /\ pipes[k].live
               /\ pipes[k].phase \in {"move", "pressUp", "pressDown",
                                      "pressHold"})
        => /\ hand' = hand
           /\ pipes' = pipes]_vars

\* C20: the pointer is visible only while a hint session is active.
C20_VisibleOnlyWhileActive == hand.active => isActive

\* Tutorial.get()
Get == instance

\* C17: Tutorial.get() returns the first loaded instance from its onLoad
\* until its own onDestroy; an instance loaded meanwhile destroys itself
\* and neither its onLoad nor its onDestroy changes what get() returns.
C17_Singleton ==
    /\ [](Get # 0 => lifecycle[Get] = "loaded")
    /\ [][/\ (Get # 0 /\ Get' # Get)
               => /\ op' = "onDestroy"
                  /\ lifecycle'[Get] = "destroyed"
                  /\ Get' = 0
          /\ \A c \in Components :
                 /\ (lifecycle[c] = "new" /\ lifecycle'[c] # "new")
                        => IF Get = 0
                           THEN Get' = c /\ lifecycle'[c] = "loaded"
                           ELSE Get' = Get /\ lifecycle'[c] = "rejected"
                 /\ (lifecycle[c] = "rejected" /\ lifecycle'[c] # "rejected")
                        => Get' = Get /\ lifecycle'[c] = "discarded"]_vars

C17_Witness ==
    /\ op = "onDestroy"
    /\ \E c, d \in Components :
           /\ Get = c
           /\ lifecycle[c] = "loaded"
           /\ lifecycle[d] = "discarded"

\* The steps pipeline p has taken fit its phase: every move but the one in
\* flight has been followed by its press.
InStep(p) ==
    CASE p.phase = "settle" -> p.moved = <<>> /\ p.pressed = <<>>
      [] p.phase = "move" ->
             /\ p.moved = Append(p.pressed, p.currentIndex)
      [] p.phase \in {"pressUp", "pressDown", "pressHold"} ->
             /\ p.moved = p.pressed
             /\ p.moved # <<>>
             /\ p.moved[Len(p.moved)] = p.currentIndex
      [] OTHER -> p.moved = p.pressed

\* The phase changes of one pipeline, each with the step that makes it.
PhaseChanges ==
    { <<"settle", "settleTimer", "move">>,
      <<"settle", "settleTimer", "job">>,
      <<"move", "moveArrive", "pressUp">>,
      <<"pressUp", "pressUpDone", "pressDown">>,
      <<"pressDown", "pressDownDone", "pressHold">>,
      <<"pressHold", "pressHoldDone", "job">>,
      <<"job", "promiseJobs", "move">>,
      <<"job", "promiseJobs", "none">> }

\* C18: the steps of a session are strictly sequential: settle delay,
\* then for each valid target one move followed by one press (scale up,
\* scale back, hold), the next move starting only after the press has
\* resolved; a session has one step in flight at a time and, when it ends
\* undisturbed, every target was moved to and pressed once or skipped.
C18_StepsSequential ==
    /\ [](\A k \in Slots : pipes[k].live => InStep(pipes[k]))
    /\ [][\A k \in Slots :
            /\ (pipes[k].live /\ pipes'[k].phase # pipes[k].phase)
                   => <<pipes[k].phase, op', pipes'[k].phase>> \in PhaseChanges
            /\ (pipes[k].live /\ pipes'[k].live)
                   => /\ Len(pipes'[k].moved) - Len(pipes[k].moved) \in {0, 1}
                      /\ Len(pipes'[k].pressed) - Len(pipes[k].pressed)
                             \in {0, 1}
                      /\ Increasing(pipes'[k].moved)
                      /\ Increasing(pipes'[k].pressed)]_vars
    /\ [](\A i \in 1 .. Len(ended) :
              /\ ended[i].moved = ended[i].pressed
              /\ (~ended[i].failed /\ ~ended[i].firstInvalid)
                     => Len(ended[i].moved) + Len(ended[i].skipped)
                            = Len(ended[i].targets))

C18_Witness ==
    /\ op = "promiseJobs"
    /\ \E k \in Slots :
           /\ pipes[k].live
           /\ pipes[k].phase = "move"
           /\ pipes[k].moved = <<0, 1>>
           /\ pipes[k].pressed = <<0>>
           /\ ~pipes[k].stopped

\* C19: the inactivity counter is never negative and stays below the
\* threshold (at 0 when the threshold is below 1); setInactivityDelay
\* stores the threshold and leaves the counter at 0.
C19_CounterBounded ==
    /\ [](/\ inactivityTime >= 0
          /\ IF inactivityDelay >= 1
             THEN inactivityTime < inactivityDelay
             ELSE inactivityTime = 0)
    /\ [][op' = "setInactivityDelay"
           => inactivityDelay' \in Delays /\ inactivityTime' = 0]_vars

C19_Witness ==
    /\ op = "checkInactivity"
    /\ inactivityDelay = MaxDelay
    /\ inactivityTime = MaxDelay - 1
    /\ emitted = <<>>

====
